---------------------------- MODULE Spec2Model ----------------------------
(***************************************************************************)
(* prompt-changer (src/main.rs): parse --shell, print the legend, read     *)
(* four (name, color) pairs from standard input, assemble the prompt,      *)
(* validate it and append one assignment line to the shell's               *)
(* configuration file.                                                     *)
(*                                                                         *)
(* Text is a sequence of byte codes (97 = "a", 10 = LF, 9 = TAB,           *)
(* 127 = DEL, ...).  A process is one invocation of the binary; the file   *)
(* system is shared by the invocations.                                    *)
(***************************************************************************)
EXTENDS Integers, Sequences, FiniteSets, TLC

(***************************************************************************)
(* Bounds of the model.                                                    *)
(***************************************************************************)
MaxProcs == 2
MaxLines == 8

(***************************************************************************)
(* Program constants.                                                      *)
(***************************************************************************)
\* for number in 1..5
NumParts == 4
\* clap 3 (Command / possible_values / value_of): get_matches() ends the
\* process through Error::exit, status 2 for a usage error, 0 for --help.
UsageCode == 2

Procs == 1..MaxProcs
Argv == {"none", "zsh", "help", "bash", "fish"}
Paths == {"bashrc", "fish"}

VARIABLES
    fs,          \* path -> [exists, data]: the two configuration files
    fs0,         \* the files as they were before any invocation (history)
    live,        \* the invocations that take place
    overlapped,  \* history: two invocations ran at the same time
    applied,     \* history: path -> the lines of the runs that exited 0, in order
    pc,          \* position of each process in main
    argv,        \* the --shell value given ("none": flag omitted)
    tty,         \* standard input is a terminal in canonical mode
    stdin,       \* bytes of standard input not yet returned by read(2)
    stdin0,      \* the whole of standard input (history)
    raws,        \* history: the line each read_line call returned
    shell,       \* main: shell
    number,      \* main: loop variable
    name,        \* main: name
    new_prompt,  \* main: new_prompt
    home,        \* update_*: result of home_dir()
    opened,      \* update_*: the configuration file was opened
    wpos,        \* update_*: write calls of writeln! that succeeded
    out,         \* what was printed to standard output
    err,         \* which error was reported on standard error
    status       \* exit status

vars == <<fs, fs0, live, overlapped, applied, pc, argv, tty, stdin, stdin0,
          raws, shell, number, name, new_prompt, home, opened, wpos, out,
          err, status>>

(***************************************************************************)
(* Text helpers.                                                           *)
(***************************************************************************)
RECURSIVE Flatten(_)
Flatten(ss) == IF ss = <<>> THEN <<>> ELSE Head(ss) \o Flatten(Tail(ss))

\* index of the first LF of s, 0 when there is none
FirstLF(s) ==
    IF \E i \in 1..Len(s) : s[i] = 10
    THEN CHOOSE i \in 1..Len(s) : s[i] = 10 /\ \A j \in 1..(i - 1) : s[j] # 10
    ELSE 0

\* char::is_whitespace on the bytes of the model
IsWhitespace(c) == c \in {9, 10, 11, 12, 13, 32}

RECURSIVE TrimStart(_)
TrimStart(s) ==
    IF s # <<>> /\ IsWhitespace(Head(s)) THEN TrimStart(Tail(s)) ELSE s

RECURSIVE TrimEnd(_)
TrimEnd(s) ==
    IF s # <<>> /\ IsWhitespace(s[Len(s)])
    THEN TrimEnd(SubSeq(s, 1, Len(s) - 1))
    ELSE s

\* input.trim()
Trim(s) == TrimEnd(TrimStart(s))

\* the character class \x00-\x1F\x7F of validate_prompt
IsControl(c) == (0 <= c /\ c <= 31) \/ c = 127

HasControl(s) == \E i \in 1..Len(s) : IsControl(s[i])

(***************************************************************************)
(* Standard input.  Every part_input_* call wraps stdin() in a BufReader   *)
(* of its own and drops it on return: read_line fills that buffer with     *)
(* read calls until it holds a line feed (or the input ends), returns the  *)
(* bytes up to and including the line feed, and the bytes the last read    *)
(* returned after the line feed are dropped with the buffer.               *)
(***************************************************************************)
\* how many bytes one read(2) on standard input may return: a terminal in
\* canonical mode hands over one line at a time; a pipe or a file hands over
\* what its writer has written so far, here any number of whole lines
ChunkSizes(rest, isTty) ==
    IF isTty
    THEN {IF FirstLF(rest) > 0 THEN FirstLF(rest) ELSE Len(rest)}
    ELSE {k \in 1..Len(rest) : rest[k] = 10 \/ k = Len(rest)}

\* BufReader::new(stdin()).read_line(&mut input): the possible results,
\* Ok with the line and the input left for the next reader, or Err
RECURSIVE ReadUntil(_, _, _)
ReadUntil(input, rest, isTty) ==
    IF rest = <<>>
    THEN {[ok |-> TRUE, line |-> input, rest |-> <<>>]}
    ELSE UNION {
        LET chunk == SubSeq(rest, 1, k)
            after == SubSeq(rest, k + 1, Len(rest))
            j == FirstLF(chunk)
        IN  IF j > 0
            THEN {[ok |-> TRUE, line |-> input \o SubSeq(chunk, 1, j), rest |-> after]}
            ELSE ReadUntil(input \o chunk, after, isTty)
        : k \in ChunkSizes(rest, isTty)}

ReadLine(rest, isTty) ==
    ReadUntil(<<>>, rest, isTty) \cup {[ok |-> FALSE, line |-> <<>>, rest |-> rest]}

(***************************************************************************)
(* Pure parts of main and its helpers.                                     *)
(***************************************************************************)
\* mutant: the name appended before the color
AccumulateNameFirst(prompt, color, nm) == prompt \o nm \o color \o <<32>>

\* new_prompt += &color; new_prompt += &name; new_prompt += " ";
Accumulate(prompt, color, nm) == prompt \o color \o nm \o <<32>>

\* r"\$"
Marker == <<92, 36>>

\* mutant: the class without \x7F
validate_prompt_no_del(prompt) ==
    IF \E i \in 1..Len(prompt) : 0 <= prompt[i] /\ prompt[i] <= 31
    THEN "Err" ELSE "Ok"

\* Regex ^[^\x00-\x1F\x7F]*$ : is_match
validate_prompt(prompt) == IF HasControl(prompt) THEN "Err" ELSE "Ok"

\* home.join(".bashrc") / home.join(".config/fish/config.fish")
ConfigPath(sh) == IF sh = "bash" THEN "bashrc" ELSE "fish"

\* "PS1='"
BashPrefix == <<80, 83, 49, 61, 39>>
\* "set -gx fish_prompt '"
FishPrefix == <<115, 101, 116, 32, 45, 103, 120, 32, 102, 105, 115, 104, 95,
                112, 114, 111, 109, 112, 116, 32, 39>>

\* writeln!(file, "PS1='{}'", new_prompt): write_fmt hands the unbuffered
\* File one write_all per piece of the format string and per argument
Pieces(sh, prompt) ==
    <<IF sh = "bash" THEN BashPrefix ELSE FishPrefix, prompt, <<39, 10>>>>

\* the complete line a call of update_* appends
ConfigLine(sh, prompt) == Flatten(Pieces(sh, prompt))

(***************************************************************************)
(* Initial states.                                                         *)
(***************************************************************************)
DefaultLine == <<97, 10>>
SpecialLines == {<<9, 99, 10>>, <<127, 10>>}

\* the scripts of n lines: every line "a", but for at most one special line
Scripts(n) ==
    {[i \in 1..n |-> IF i = at THEN l ELSE DefaultLine] :
        at \in 1..n, l \in {DefaultLine} \cup SpecialLines}
    \cup {[i \in 1..n |-> DefaultLine]}

StdinSet == {Flatten(s) : s \in UNION {Scripts(n) : n \in 0..MaxLines}}

\* a configuration file: absent, empty, or "x" with no line feed at its end
FileInit == {[exists |-> FALSE, data |-> <<>>],
             [exists |-> TRUE, data |-> <<>>],
             [exists |-> TRUE, data |-> <<120>>]}

InitProc ==
    /\ pc = [p \in Procs |-> "start"]
    /\ raws = [p \in Procs |-> <<>>]
    /\ shell = [p \in Procs |-> "unset"]
    /\ number = [p \in Procs |-> 0]
    /\ name = [p \in Procs |-> <<>>]
    /\ new_prompt = [p \in Procs |-> <<>>]
    /\ home = [p \in Procs |-> "unset"]
    /\ opened = [p \in Procs |-> FALSE]
    /\ wpos = [p \in Procs |-> 0]
    /\ out = [p \in Procs |-> <<>>]
    /\ err = [p \in Procs |-> "none"]
    /\ status = [p \in Procs |-> -1]
    /\ overlapped = FALSE
    /\ applied = [f \in Paths |-> <<>>]
    /\ fs \in [Paths -> FileInit]
    /\ fs0 = fs
    /\ stdin0 = stdin

\* one invocation, any input
Init ==
    /\ live = {1}
    /\ argv \in {a \in [Procs -> Argv] : \A p \in Procs \ {1} : a[p] = "none"}
    /\ tty \in {t \in [Procs -> BOOLEAN] : \A p \in Procs \ {1} : t[p]}
    /\ stdin \in {s \in [Procs -> StdinSet] : \A p \in Procs \ {1} : s[p] = <<>>}
    /\ InitProc

\* the scripted terminal sessions of the concurrent invocations
ConcStdin ==
    {Flatten([i \in 1..(2 * NumParts) |-> IF i = 1 THEN l ELSE DefaultLine]) :
        l \in {DefaultLine, <<127, 10>>}}

\* every process is invoked, each from a terminal
InitConc ==
    /\ live = Procs
    /\ argv \in [Procs -> Argv]
    /\ tty = [p \in Procs |-> TRUE]
    /\ stdin \in [Procs -> ConcStdin]
    /\ InitProc

(***************************************************************************)
(* Steps of main.                                                          *)
(***************************************************************************)
\* process::exit(code), after e was reported
Exit(p, code, e) ==
    /\ pc' = [pc EXCEPT ![p] = "exited"]
    /\ status' = [status EXCEPT ![p] = code]
    /\ err' = [err EXCEPT ![p] = e]

Running(q) == q \in live /\ pc[q] \notin {"start", "exited"}

\* mutant: the argument without possible_values, any value taken as the shell
ParseArgsAnyValue(p) ==
    /\ p \in live
    /\ pc[p] = "start"
    /\ overlapped' = (overlapped \/ \E q \in Procs \ {p} : Running(q))
    /\ CASE argv[p] \in {"bash", "fish", "zsh"} ->
              /\ shell' = [shell EXCEPT ![p] = argv[p]]
              /\ pc' = [pc EXCEPT ![p] = "hint"]
              /\ UNCHANGED <<out, err, status>>
         [] argv[p] = "help" ->
              /\ out' = [out EXCEPT ![p] = Append(@, <<"help">>)]
              /\ Exit(p, 0, "none")
              /\ UNCHANGED shell
         [] OTHER ->
              /\ Exit(p, UsageCode, "usage")
              /\ UNCHANGED <<shell, out>>
    /\ UNCHANGED <<fs, fs0, live, applied, argv, tty, stdin, stdin0, raws,
                   number, name, new_prompt, home, opened, wpos>>

\* Command::new(...).arg(...).get_matches(); matches.value_of("shell")
ParseArgs(p) ==
    /\ p \in live
    /\ pc[p] = "start"
    /\ overlapped' = (overlapped \/ \E q \in Procs \ {p} : Running(q))
    /\ CASE argv[p] \in {"bash", "fish"} ->
              /\ shell' = [shell EXCEPT ![p] = argv[p]]
              /\ pc' = [pc EXCEPT ![p] = "hint"]
              /\ UNCHANGED <<out, err, status>>
         [] argv[p] = "help" ->
              /\ out' = [out EXCEPT ![p] = Append(@, <<"help">>)]
              /\ Exit(p, 0, "none")
              /\ UNCHANGED shell
         [] OTHER ->
              /\ Exit(p, UsageCode, "usage")
              /\ UNCHANGED <<shell, out>>
    /\ UNCHANGED <<fs, fs0, live, applied, argv, tty, stdin, stdin0, raws,
                   number, name, new_prompt, home, opened, wpos>>

\* bash_hint(); let mut new_prompt = String::new(); for number in 1..5
BashHint(p) ==
    /\ p \in live
    /\ pc[p] = "hint"
    /\ out' = [out EXCEPT ![p] = Append(@, <<"legend">>)]
    /\ new_prompt' = [new_prompt EXCEPT ![p] = <<>>]
    /\ number' = [number EXCEPT ![p] = 1]
    /\ pc' = [pc EXCEPT ![p] = "name"]
    /\ UNCHANGED <<fs, fs0, live, overlapped, applied, argv, tty, stdin,
                   stdin0, raws, shell, name, home, opened, wpos, err, status>>

\* let name = part_input_name(number).unwrap_or_else(... process::exit(1))
PartInputName(p) ==
    /\ p \in live
    /\ pc[p] = "name"
    /\ out' = [out EXCEPT ![p] = Append(@, <<"name", number[p]>>)]
    /\ \E r \in ReadLine(stdin[p], tty[p]) :
         IF r.ok
         THEN /\ stdin' = [stdin EXCEPT ![p] = r.rest]
              /\ raws' = [raws EXCEPT ![p] = Append(@, r.line)]
              /\ name' = [name EXCEPT ![p] = Trim(r.line)]
              /\ pc' = [pc EXCEPT ![p] = "color"]
              /\ UNCHANGED <<err, status>>
         ELSE /\ Exit(p, 1, "read")
              /\ UNCHANGED <<stdin, raws, name>>
    /\ UNCHANGED <<fs, fs0, live, overlapped, applied, argv, tty, stdin0,
                   shell, number, new_prompt, home, opened, wpos>>

\* let color = part_input_color(number).unwrap_or_else(...);
\* new_prompt += &color; new_prompt += &name; new_prompt += " ";
PartInputColor(p) ==
    /\ p \in live
    /\ pc[p] = "color"
    /\ out' = [out EXCEPT ![p] = Append(@, <<"color", number[p]>>)]
    /\ \E r \in ReadLine(stdin[p], tty[p]) :
         IF r.ok
         THEN /\ stdin' = [stdin EXCEPT ![p] = r.rest]
              /\ raws' = [raws EXCEPT ![p] = Append(@, r.line)]
              /\ new_prompt' = [new_prompt EXCEPT
                                  ![p] = Accumulate(@, Trim(r.line), name[p])]
              /\ number' = [number EXCEPT ![p] = @ + 1]
              /\ pc' = [pc EXCEPT ![p] = IF number[p] = NumParts
                                         THEN "marker" ELSE "name"]
              /\ UNCHANGED <<err, status>>
         ELSE /\ Exit(p, 1, "read")
              /\ UNCHANGED <<stdin, raws, new_prompt, number>>
    /\ UNCHANGED <<fs, fs0, live, overlapped, applied, argv, tty, stdin0,
                   shell, name, home, opened, wpos>>

\* new_prompt += r"\$";
AppendMarker(p) ==
    /\ p \in live
    /\ pc[p] = "marker"
    /\ new_prompt' = [new_prompt EXCEPT ![p] = @ \o Marker]
    /\ pc' = [pc EXCEPT ![p] = "validate"]
    /\ UNCHANGED <<fs, fs0, live, overlapped, applied, argv, tty, stdin,
                   stdin0, raws, shell, number, name, home, opened, wpos,
                   out, err, status>>

\* if let Err(err) = validate_prompt(&new_prompt) { ...; process::exit(1) }
Validate(p) ==
    /\ p \in live
    /\ pc[p] = "validate"
    /\ IF validate_prompt(new_prompt[p]) = "Err"
       THEN Exit(p, 1, "validate")
       ELSE /\ pc' = [pc EXCEPT ![p] = "update"]
            /\ UNCHANGED <<err, status>>
    /\ UNCHANGED <<fs, fs0, live, overlapped, applied, argv, tty, stdin,
                   stdin0, raws, shell, number, name, new_prompt, home,
                   opened, wpos, out>>

\* mutant: OpenOptions::new().append(true).create(true)
UpdateOpenCreate(p) ==
    /\ p \in live
    /\ pc[p] = "update"
    /\ \E homeOk \in BOOLEAN, permitted \in BOOLEAN :
         IF ~homeOk
         THEN /\ home' = [home EXCEPT ![p] = "none"]
              /\ Exit(p, 1, "home")
              /\ UNCHANGED <<fs, opened, wpos>>
         ELSE /\ home' = [home EXCEPT ![p] = "some"]
              /\ IF permitted
                 THEN /\ fs' = [fs EXCEPT ![ConfigPath(shell[p])].exists = TRUE]
                      /\ opened' = [opened EXCEPT ![p] = TRUE]
                      /\ wpos' = [wpos EXCEPT ![p] = 0]
                      /\ pc' = [pc EXCEPT ![p] = "write"]
                      /\ UNCHANGED <<err, status>>
                 ELSE /\ Exit(p, 1, "open")
                      /\ UNCHANGED <<fs, opened, wpos>>
    /\ UNCHANGED <<fs0, live, overlapped, applied, argv, tty, stdin,
                   stdin0, raws, shell, number, name, new_prompt, out>>

\* update_bash_prompt / update_fish_prompt up to the open:
\* home_dir().ok_or_else(..)?; OpenOptions::new().append(true).open(path)?
UpdateOpen(p) ==
    /\ p \in live
    /\ pc[p] = "update"
    /\ \E homeOk \in BOOLEAN, permitted \in BOOLEAN :
         IF ~homeOk
         THEN /\ home' = [home EXCEPT ![p] = "none"]
              /\ Exit(p, 1, "home")
              /\ UNCHANGED <<opened, wpos>>
         ELSE /\ home' = [home EXCEPT ![p] = "some"]
              /\ IF fs[ConfigPath(shell[p])].exists /\ permitted
                 THEN /\ opened' = [opened EXCEPT ![p] = TRUE]
                      /\ wpos' = [wpos EXCEPT ![p] = 0]
                      /\ pc' = [pc EXCEPT ![p] = "write"]
                      /\ UNCHANGED <<err, status>>
                 ELSE /\ Exit(p, 1, "open")
                      /\ UNCHANGED <<opened, wpos>>
    /\ UNCHANGED <<fs, fs0, live, overlapped, applied, argv, tty, stdin,
                   stdin0, raws, shell, number, name, new_prompt, out>>

\* mutant: the result of writeln! dropped instead of returned with ?
WritePieceErrorIgnored(p) ==
    /\ p \in live
    /\ pc[p] = "write"
    /\ \E ok \in BOOLEAN :
         IF ok
         THEN /\ fs' = [fs EXCEPT ![ConfigPath(shell[p])].data =
                          @ \o Pieces(shell[p], new_prompt[p])[wpos[p] + 1]]
              /\ wpos' = [wpos EXCEPT ![p] = @ + 1]
              /\ pc' = [pc EXCEPT ![p] =
                          IF wpos[p] + 1 = Len(Pieces(shell[p], new_prompt[p]))
                          THEN "success" ELSE "write"]
         ELSE /\ pc' = [pc EXCEPT ![p] = "success"]
              /\ UNCHANGED <<fs, wpos>>
    /\ UNCHANGED <<fs0, live, overlapped, applied, argv, tty, stdin, stdin0,
                   raws, shell, number, name, new_prompt, home, opened, out,
                   err, status>>

\* writeln!(file, ..)?: one write_all on the append-mode file per piece
WritePiece(p) ==
    /\ p \in live
    /\ pc[p] = "write"
    /\ \E ok \in BOOLEAN :
         IF ok
         THEN /\ fs' = [fs EXCEPT ![ConfigPath(shell[p])].data =
                          @ \o Pieces(shell[p], new_prompt[p])[wpos[p] + 1]]
              /\ wpos' = [wpos EXCEPT ![p] = @ + 1]
              /\ pc' = [pc EXCEPT ![p] =
                          IF wpos[p] + 1 = Len(Pieces(shell[p], new_prompt[p]))
                          THEN "success" ELSE "write"]
              /\ UNCHANGED <<err, status>>
         ELSE /\ Exit(p, 1, "write")
              /\ UNCHANGED <<fs, wpos>>
    /\ UNCHANGED <<fs0, live, overlapped, applied, argv, tty, stdin, stdin0,
                   raws, shell, number, name, new_prompt, home, opened, out>>

\* println!("Bash prompt updated successfully.") / the fish one; main returns
Success(p) ==
    /\ p \in live
    /\ pc[p] = "success"
    /\ out' = [out EXCEPT ![p] = Append(@, <<"updated", shell[p]>>)]
    /\ applied' = [applied EXCEPT ![ConfigPath(shell[p])] =
                     Append(@, ConfigLine(shell[p], new_prompt[p]))]
    /\ Exit(p, 0, "none")
    /\ UNCHANGED <<fs, fs0, live, overlapped, argv, tty, stdin, stdin0, raws,
                   shell, number, name, new_prompt, home, opened, wpos>>

Next ==
    \E p \in Procs :
        \/ ParseArgs(p)
        \/ BashHint(p)
        \/ PartInputName(p)
        \/ PartInputColor(p)
        \/ AppendMarker(p)
        \/ Validate(p)
        \/ UpdateOpen(p)
        \/ WritePiece(p)
        \/ Success(p)

Spec == Init /\ [][Next]_vars

SpecConc == InitConc /\ [][Next]_vars

(***************************************************************************)
(* Vocabulary of the properties.                                           *)
(***************************************************************************)
\* the k-th fragment main received: the k-th line read, trimmed
Frag(p, k) == Trim(raws[p][k])

\* the k-th line as it was entered, without its line feed
Entered(p, k) ==
    LET l == raws[p][k]
    IN  IF l # <<>> /\ l[Len(l)] = 10 THEN SubSeq(l, 1, Len(l) - 1) ELSE l

\* all eight reads returned and the trailing marker was appended
Assembled(p) == Len(raws[p]) = 2 * NumParts /\ pc[p] # "marker"

Clean(p) == \A k \in 1..Len(raws[p]) : ~HasControl(Frag(p, k))

\* color1 name1 " " ... color4 name4 " " \$
Expected(p) ==
    Flatten([i \in 1..NumParts |->
                Frag(p, 2 * i) \o Frag(p, 2 * i - 1) \o <<32>>]) \o <<92, 36>>

NLines(s) == Cardinality({i \in 1..Len(s) : s[i] = 10})

\* the k-th line of s, its line feed included
RECURSIVE LineOf(_, _)
LineOf(s, k) ==
    IF k = 1
    THEN SubSeq(s, 1, FirstLF(s))
    ELSE LineOf(SubSeq(s, FirstLF(s) + 1, Len(s)), k - 1)

Target(p) == ConfigPath(shell[p])

OtherPath(f) == IF f = "bashrc" THEN "fish" ELSE "bashrc"

EndsLine(s) == s = <<>> \/ s[Len(s)] = 10

Quiescent == \A p \in live : pc[p] \in {"start", "exited"}

\* the orders in which some of the processes may have appended their line
Orders ==
    {o \in UNION {[1..n -> Procs] : n \in 0..MaxProcs} :
        \A i, j \in 1..Len(o) : i # j => o[i] # o[j]}

(***************************************************************************)
(* C1: when the eight fragments hold no control character, the prompt      *)
(* main assembles is color1 name1 " " ... color4 name4 " " followed by \$, *)
(* and validate_prompt accepts it.                                         *)
(***************************************************************************)
C1_AssembledPrompt ==
    \A p \in live :
        (Assembled(p) /\ Clean(p)) =>
            /\ new_prompt[p] = Expected(p)
            /\ validate_prompt(new_prompt[p]) = "Ok"
            /\ err[p] # "validate"

C1_Witness ==
    \E p \in live :
        /\ Assembled(p) /\ Clean(p)
        /\ pc[p] = "update"
        /\ \A k \in 1..Len(raws[p]) : Frag(p, k) # <<>>
        /\ \E i \in 1..NumParts : Frag(p, 2 * i) # Frag(p, 2 * i - 1)

(***************************************************************************)
(* C2 as stated: a run in which every read returned an entered line and    *)
(* one of the entered fragments holds a byte in 0x00-0x1F or 0x7F never    *)
(* gets past validation: it ends with an error and neither configuration   *)
(* file is opened or changed.                                              *)
(***************************************************************************)
Rejected(p) ==
    /\ ~opened[p]
    /\ wpos[p] = 0
    /\ fs = fs0
    /\ pc[p] \in {"name", "color", "marker", "validate", "exited"}
    /\ pc[p] = "exited" => (status[p] = 1 /\ err[p] \in {"read", "validate"})
    /\ Assembled(p) => validate_prompt(new_prompt[p]) = "Err"

C2_EnteredControlRejected ==
    \A p \in live :
        (/\ \A k \in 1..Len(raws[p]) : raws[p][k] # <<>>
         /\ \E k \in 1..Len(raws[p]) : HasControl(Entered(p, k))) => Rejected(p)

(***************************************************************************)
(* C2 amended: a run in which a fragment, as trimmed of its leading and    *)
(* trailing whitespace by part_input_*, holds a byte in 0x00-0x1F or 0x7F  *)
(* never gets past validation: it ends with status 1 and neither           *)
(* configuration file is opened or changed.                                *)
(***************************************************************************)
C2_TrimmedControlRejected ==
    \A p \in live :
        (\E k \in 1..Len(raws[p]) : HasControl(Frag(p, k))) => Rejected(p)

C2_Witness ==
    \E p \in live :
        /\ \E k \in 1..Len(raws[p]) : HasControl(Frag(p, k))
        /\ pc[p] = "exited"
        /\ err[p] = "validate"

(***************************************************************************)
(* C3: a successful run (one that was given its eight lines) appends       *)
(* exactly one line, PS1='<prompt>' to                                     *)
(* .bashrc or set -gx fish_prompt '<prompt>' to config.fish, leaves the    *)
(* other file alone, keeps the previous content as a prefix, and the new   *)
(* text is a complete line of its own whatever the previous content was.   *)
(***************************************************************************)
C3_OneLineAppended ==
    \A p \in live :
        (/\ pc[p] = "exited" /\ status[p] = 0 /\ shell[p] \in {"bash", "fish"}
         /\ \A k \in 1..Len(raws[p]) : raws[p][k] # <<>>) =>
            LET line == ConfigLine(shell[p], new_prompt[p])
            IN  /\ fs[Target(p)].data = fs0[Target(p)].data \o line
                /\ FirstLF(line) = Len(line)
                /\ fs[OtherPath(Target(p))] = fs0[OtherPath(Target(p))]
                /\ EndsLine(fs0[Target(p)].data)

(***************************************************************************)
(* C4: the k-th read returns the k-th line of standard input, trimmed:     *)
(* name_i is line 2i-1 and color_i is line 2i, whatever the input and      *)
(* however much of it was available before the read.                       *)
(***************************************************************************)
C4_LinePerRead ==
    \A p \in live :
        \A k \in 1..Len(raws[p]) :
            k <= NLines(stdin0[p]) => Frag(p, k) = Trim(LineOf(stdin0[p], k))

(***************************************************************************)
(* C5: a read that meets the end of standard input before a line was       *)
(* supplied aborts the process at once with a non-zero status.             *)
(***************************************************************************)
C5_EndOfInputAborts ==
    \A p \in live :
        (\E k \in 1..Len(raws[p]) : raws[p][k] = <<>>) =>
            (pc[p] = "exited" /\ status[p] # 0)

(***************************************************************************)
(* C6 as stated: every error path exits with status 1, and only a run      *)
(* that completed the append and printed the success message exits 0.      *)
(***************************************************************************)
Appended(p) ==
    /\ shell[p] \in {"bash", "fish"}
    /\ wpos[p] = Len(Pieces(shell[p], new_prompt[p]))
    /\ out[p] # <<>>
    /\ out[p][Len(out[p])] = <<"updated", shell[p]>>

C6_EveryErrorExitsOne ==
    \A p \in live :
        pc[p] = "exited" =>
            /\ argv[p] \notin {"bash", "fish"} => status[p] = 1
            /\ err[p] # "none" => status[p] = 1
            /\ status[p] = 0 => Appended(p)

(***************************************************************************)
(* C6 amended: the argument error (missing or unsupported --shell value)   *)
(* exits with status 2; an input-read error, a validation error, a         *)
(* home-directory error and a file open or write error exit with status 1; *)
(* status 0 is that of a run that completed the append and printed the     *)
(* success message, or of a help request, which appends nothing.           *)
(***************************************************************************)
C6_ExitStatus ==
    \A p \in live :
        pc[p] = "exited" =>
            /\ status[p] \in {0, 1, 2}
            /\ argv[p] \in {"none", "zsh"} <=> status[p] = 2
            /\ status[p] = 2 <=> err[p] = "usage"
            /\ status[p] = 1 <=>
                 err[p] \in {"read", "validate", "home", "open", "write"}
            /\ err[p] = "read" => Len(raws[p]) < 2 * NumParts
            /\ err[p] = "validate" => HasControl(new_prompt[p])
            /\ err[p] = "home" => (home[p] = "none" /\ ~opened[p])
            /\ err[p] = "open" => (home[p] = "some" /\ ~opened[p])
            /\ err[p] = "write" =>
                 (opened[p] /\ wpos[p] < Len(Pieces(shell[p], new_prompt[p])))
            /\ status[p] = 0 =>
                 \/ Appended(p) /\ ~HasControl(new_prompt[p])
                 \/ argv[p] = "help" /\ out[p] = <<<<"help">>>> /\ wpos[p] = 0

C6_Witness ==
    \E p \in live :
        /\ pc[p] = "exited"
        /\ err[p] = "write"
        /\ status[p] = 1
        /\ wpos[p] > 0

(***************************************************************************)
(* C7: with --shell omitted or unsupported the process exits non-zero at   *)
(* argument parsing: nothing was printed to standard output, nothing was   *)
(* read from standard input and no configuration file was opened or        *)
(* changed.                                                                *)
(***************************************************************************)
C7_BadShellExitsFirst ==
    \A p \in live :
        argv[p] \in {"none", "zsh"} =>
            /\ pc[p] \in {"start", "exited"}
            /\ pc[p] = "exited" => status[p] # 0
            /\ out[p] = <<>>
            /\ raws[p] = <<>>
            /\ stdin[p] = stdin0[p]
            /\ ~opened[p]
            /\ fs = fs0

C7_Witness ==
    \E p \in live :
        /\ argv[p] = "zsh"
        /\ pc[p] = "exited"
        /\ stdin0[p] # <<>>

(***************************************************************************)
(* C8: when the target file does not exist the open fails, the process     *)
(* exits with status 1 without the success message and the file is not     *)
(* created; when the home directory cannot be resolved the run fails       *)
(* before any file is opened.                                              *)
(***************************************************************************)
C8_MissingFileNotCreated ==
    \A p \in live :
        /\ (shell[p] \in {"bash", "fish"} /\ ~fs0[Target(p)].exists) =>
              /\ ~fs[Target(p)].exists
              /\ fs = fs0
              /\ ~opened[p]
              /\ pc[p] \notin {"write", "success"}
              /\ pc[p] = "exited" =>
                    /\ status[p] = 1
                    /\ \A i \in 1..Len(out[p]) : out[p][i][1] # "updated"
        /\ home[p] = "none" =>
              /\ pc[p] = "exited"
              /\ status[p] = 1
              /\ ~opened[p]
              /\ fs = fs0

C8_Witness ==
    \E p \in live :
        /\ pc[p] = "exited"
        /\ err[p] = "open"
        /\ ~fs0[Target(p)].exists
        /\ fs0[OtherPath(Target(p))].exists

(***************************************************************************)
(* C9: in every reachable state each configuration file holds its earlier  *)
(* content followed only by complete appended lines, never a fragment of   *)
(* a line and never two lines interleaved.                                 *)
(***************************************************************************)
C9_NoPartialWrite ==
    \A f \in Paths :
        \E o \in Orders :
            /\ \A i \in 1..Len(o) : shell[o[i]] \in {"bash", "fish"} /\ Target(o[i]) = f
            /\ fs[f].data =
                 fs0[f].data \o
                 Flatten([i \in 1..Len(o) |-> ConfigLine(shell[o[i]], new_prompt[o[i]])])

(***************************************************************************)
(* C10: after any sequence of runs that did not overlap, each file is its  *)
(* original content followed by the lines of the successful runs in run    *)
(* order; failed runs added nothing.                                       *)
(***************************************************************************)
C10_AppendOnly ==
    (Quiescent /\ ~overlapped) =>
        \A f \in Paths :
            /\ fs[f].exists = fs0[f].exists
            /\ fs[f].data = fs0[f].data \o Flatten(applied[f])

(***************************************************************************)
(* Supporting facts, each checked with TLC.                                *)
(***************************************************************************)
\* Spec: from a terminal, which hands over one line per read, the k-th read
\* does return the k-th line (C4 fails for pipes and files only)
TtyLinePerRead ==
    \A p \in live :
        tty[p] =>
            \A k \in 1..Len(raws[p]) :
                k <= NLines(stdin0[p]) => Frag(p, k) = Trim(LineOf(stdin0[p], k))

\* Spec: when the previous content is empty or ends with a line feed, a
\* successful run appends its line as a line of its own (C3 fails otherwise)
WholeLineAfterLineEnd ==
    \A p \in live :
        (/\ pc[p] = "exited" /\ status[p] = 0 /\ shell[p] \in {"bash", "fish"}
         /\ EndsLine(fs0[Target(p)].data)) =>
            /\ fs[Target(p)].data =
                 fs0[Target(p)].data \o ConfigLine(shell[p], new_prompt[p])
            /\ fs[OtherPath(Target(p))] = fs0[OtherPath(Target(p))]

\* SpecConc: runs that do not overlap and meet no write error leave each
\* file as its original content followed by the lines of the successful runs
SequentialAppendOnly ==
    (Quiescent /\ ~overlapped /\ \A p \in live : err[p] # "write") =>
        \A f \in Paths : fs[f].data = fs0[f].data \o Flatten(applied[f])

\* SpecConc: violated, two invocations that both exit 0 can leave their
\* lines interleaved
NoInterleavedLines ==
    (\A p \in live : pc[p] = "exited" /\ status[p] = 0) => C9_NoPartialWrite

=============================================================================
